---- MODULE Spec2Model ----
(***************************************************************************)
(* Model of the environmental assessment pipeline (agentic_env_ai):        *)
(* DataIngestionAgent and the Orchestrator's staged run over one           *)
(* AssessmentContext, with MemoryAgent's per-site store shared by runs.    *)
(*                                                                         *)
(* Numbers are fixed-point integers.  A payload number is counted in units *)
(* of 1e-6; a value inside DataIngestionAgent.run (after _normalize,       *)
(* before round) is [value, frac]: value units of 1e-6 plus frac units of  *)
(* 1e-8, which holds the product with 1.88 exactly.  normalized_data is in *)
(* units of 1e-4 (round(value, 4)), air_quality_score in 1e-2, tool        *)
(* outputs and the historical mean in 1e-3, evaluation and reliability     *)
(* scores in 1e-4.  round() is taken on the decimal number, ties to even;  *)
(* Python decides a decimal tie by the float's binary expansion.           *)
(***************************************************************************)
EXTENDS Integers, Sequences, FiniteSets, TLC

VARIABLES pc, context, error, store, corpus, runs, completed

vars == <<pc, context, error, store, corpus, runs, completed>>

(* ------------------------------ bounds --------------------------------- *)

\* Orchestrator.run calls made on the one orchestrator instance.
MaxRuns == 3

\* Largest number of alias keys of one sensor present together in a payload.
MaxAliasesPresent == 2

(* --------------------------- number helpers ---------------------------- *)

\* units of 1e-6 in 1.0: the scale of a payload number and of the bounds
U == 10 ^ 6

\* round(): n/d rounded to the nearest integer, ties to the even one
Round(n, d) ==
    LET q == n \div d
        r == n % d
    IN  IF 2 * r < d THEN q
        ELSE IF 2 * r > d THEN q + 1
        ELSE IF q % 2 = 0 THEN q ELSE q + 1

Max(a, b) == IF a >= b THEN a ELSE b

Min(a, b) == IF a <= b THEN a ELSE b

Abs(a) == IF a >= 0 THEN a ELSE 0 - a

RECURSIVE Sum(_)
Sum(s) == IF s = << >> THEN 0 ELSE Head(s) + Sum(Tail(s))

RECURSIVE MaxOf(_)
MaxOf(s) == IF Len(s) = 1 THEN s[1] ELSE Max(Head(s), MaxOf(Tail(s)))

\* dict(): the empty dict a context field starts as
EmptyDict == [k \in {} |-> 0]

(* ------------------------- DataIngestionAgent -------------------------- *)

\* insertion order of the SPECS dict, the order run() iterates it in
SpecOrder == <<"pm25", "pm10", "no2", "ph", "temperature_c">>

Sensors == {SpecOrder[i] : i \in 1..Len(SpecOrder)}

SPECS ==
    [pm25 |-> [canonical_name |-> "pm25",
               aliases |-> <<"pm2_5", "pm2.5", "pm25_ugm3">>,
               min_value |-> 0, max_value |-> 55 * U,
               hard_min |-> 0, hard_max |-> 1000 * U, unit |-> "ug/m3"],
     pm10 |-> [canonical_name |-> "pm10",
               aliases |-> <<"pm10_ugm3">>,
               min_value |-> 0, max_value |-> 150 * U,
               hard_min |-> 0, hard_max |-> 1200 * U, unit |-> "ug/m3"],
     no2 |-> [canonical_name |-> "no2",
              aliases |-> <<"no2_ppb", "nitrogen_dioxide">>,
              min_value |-> 0, max_value |-> 200 * U,
              hard_min |-> 0, hard_max |-> 2000 * U, unit |-> "ug/m3"],
     ph |-> [canonical_name |-> "ph",
             aliases |-> <<"water_ph">>,
             min_value |-> (65 * U) \div 10, max_value |-> (85 * U) \div 10,
             hard_min |-> 0, hard_max |-> 14 * U, unit |-> "pH"],
     temperature_c |-> [canonical_name |-> "temperature_c",
                        aliases |-> <<"temp_c", "temperature">>,
                        min_value |-> 0 - 10 * U, max_value |-> 45 * U,
                        hard_min |-> 0 - 50 * U, hard_max |-> 80 * U,
                        unit |-> "celsius"]]

\* NO2_PPB_TO_UGM3 = 1.88, in hundredths
NO2_PPB_TO_UGM3 == 188

\* A payload is a dict in insertion order: a sequence of entries
\* [key, raw] with distinct keys.  raw is [kind, v]: kind "num" is an int or
\* float, "str" a numeric string, "text" a string that is no number.
HasKey(payload, key) == \E i \in 1..Len(payload) : payload[i].key = key

Lookup(payload, key) ==
    payload[CHOOSE i \in 1..Len(payload) : payload[i].key = key].raw

\* float(raw): the number for a number or a numeric string, else ValueError
Float(raw) ==
    IF raw.kind \in {"num", "str"} THEN [ok |-> TRUE, v |-> raw.v]
    ELSE [ok |-> FALSE, v |-> 0]

\* a scan that stops one alias short
SpecKeys_short(spec) ==
    <<spec.canonical_name>> \o SubSeq(spec.aliases, 1, Len(spec.aliases) - 1)

\* (spec.canonical_name, *spec.aliases)
SpecKeys(spec) == <<spec.canonical_name>> \o spec.aliases

RECURSIVE resolve_from(_, _, _)
resolve_from(payload, keys, i) ==
    IF i > Len(keys)
    THEN [status |-> "missing", key |-> "", value |-> 0]
    ELSE IF HasKey(payload, keys[i])
         THEN LET f == Float(Lookup(payload, keys[i]))
              IN  IF f.ok
                  THEN [status |-> "ok", key |-> keys[i], value |-> f.v]
                  ELSE [status |-> "not_numeric", key |-> keys[i], value |-> 0]
         ELSE resolve_from(payload, keys, i + 1)

\* a resolution that takes the first payload entry naming the sensor
resolve_value_payload_order(payload, spec) ==
    LET keys == {SpecKeys(spec)[i] : i \in 1..Len(SpecKeys(spec))}
        hits == {i \in 1..Len(payload) : payload[i].key \in keys}
    IN  IF hits = {}
        THEN [status |-> "missing", key |-> "", value |-> 0]
        ELSE LET e == payload[CHOOSE i \in hits : \A j \in hits : i <= j]
                 f == Float(e.raw)
             IN  IF f.ok
                 THEN [status |-> "ok", key |-> e.key, value |-> f.v]
                 ELSE [status |-> "not_numeric", key |-> e.key, value |-> 0]

\* a resolution that reads an absent sensor as 0 (payload.get(key, 0))
resolve_value_default(payload, spec) ==
    LET r == resolve_from(payload, SpecKeys(spec), 1)
    IN  IF r.status = "missing"
        THEN [status |-> "ok", key |-> spec.canonical_name, value |-> 0]
        ELSE r

\* DataIngestionAgent._resolve_value
resolve_value(payload, spec) == resolve_from(payload, SpecKeys(spec), 1)

\* value * self.NO2_PPB_TO_UGM3: whole units of 1e-6 and the rest in 1e-8
TimesFactor(value) ==
    [value |-> (value \div 100) * NO2_PPB_TO_UGM3
                 + ((value % 100) * NO2_PPB_TO_UGM3) \div 100,
     frac |-> ((value % 100) * NO2_PPB_TO_UGM3) % 100]

\* DataIngestionAgent._normalize
normalize(key, canonical_name, value) ==
    IF canonical_name = "no2" /\ key = "no2_ppb"
    THEN [value |-> TimesFactor(value), note |-> "Converted no2_ppb to ug/m3"]
    ELSE [value |-> [value |-> value, frac |-> 0], note |-> "No unit conversion"]

\* bound <= value
AtLeast(value, bound) == bound <= value.value

\* value <= bound
AtMost(value, bound) ==
    value.value < bound \/ (value.value = bound /\ value.frac = 0)

\* round(value, 4), in units of 1e-4
Round4(value) ==
    LET q == value.value \div 100
        r == (value.value % 100) * 100 + value.frac
    IN  IF 2 * r < 10000 THEN q
        ELSE IF 2 * r > 10000 THEN q + 1
        ELSE IF q % 2 = 0 THEN q ELSE q + 1

\* a check of the upper physical bound only
InHardRange_upper_only(spec, value) == AtMost(value, spec.hard_max)

\* spec.hard_min <= value <= spec.hard_max
InHardRange(spec, value) ==
    AtLeast(value, spec.hard_min) /\ AtMost(value, spec.hard_max)

\* a check against the physical range where the operating range is meant
InSoftRange_hard(spec, value) ==
    AtLeast(value, spec.hard_min) /\ AtMost(value, spec.hard_max)

\* spec.min_value <= value <= spec.max_value
InSoftRange(spec, value) ==
    AtLeast(value, spec.min_value) /\ AtMost(value, spec.max_value)

\* a score that divides the issues by a constant 10
QualityScore_tenths(quality_issues) ==
    Round(Max(0, (10 - quality_issues) * 10000), 10)

\* round(max(0.0, 1.0 - (quality_issues / len(self.SPECS))), 4), in 1e-4
QualityScore(quality_issues) ==
    Round(Max(0, (Len(SpecOrder) - quality_issues) * 10000), Len(SpecOrder))

\* the local variables of run() before the loop
IngestStart ==
    [normalized |-> EmptyDict, conversion_notes |-> << >>,
     warnings |-> << >>, quality_issues |-> 0]

\* the for loop of run(), from the i-th spec on; acc holds the locals
RECURSIVE IngestLoop(_, _, _)
IngestLoop(payload, i, acc) ==
    IF i > Len(SpecOrder)
    THEN [ok |-> TRUE, acc |-> acc, error |-> [kind |-> "none", name |-> ""]]
    ELSE
      LET canonical_name == SpecOrder[i]
          spec == SPECS[canonical_name]
          src == resolve_value(payload, spec)
      IN  IF src.status = "missing"
          THEN [ok |-> FALSE, acc |-> acc,
                error |-> [kind |-> "missing", name |-> spec.canonical_name]]
          ELSE IF src.status = "not_numeric"
          THEN [ok |-> FALSE, acc |-> acc,
                error |-> [kind |-> "not_numeric", name |-> src.key]]
          ELSE
            LET n == normalize(src.key, canonical_name, src.value)
                notes == Append(acc.conversion_notes,
                                [sensor |-> canonical_name, note |-> n.note])
            IN  IF ~InHardRange(spec, n.value)
                THEN [ok |-> FALSE, acc |-> acc,
                      error |-> [kind |-> "impossible", name |-> canonical_name]]
                ELSE
                  LET warn == ~InSoftRange(spec, n.value)
                  IN  IngestLoop(payload, i + 1,
                        [normalized |->
                            [k \in (DOMAIN acc.normalized) \cup {canonical_name} |->
                               IF k = canonical_name THEN Round4(n.value)
                               ELSE acc.normalized[k]],
                         conversion_notes |-> notes,
                         warnings |->
                            IF warn
                            THEN Append(acc.warnings,
                                   [sensor |-> canonical_name, value |-> n.value])
                            ELSE acc.warnings,
                         quality_issues |->
                            IF warn THEN acc.quality_issues + 1
                            ELSE acc.quality_issues])

\* DataIngestionAgent.run as a function of the payload: the two context
\* fields it assigns after the loop, or the ValueError it raises
Ingest(payload) ==
    LET r == IngestLoop(payload, 1, IngestStart)
    IN  IF r.ok
        THEN [ok |-> TRUE,
              normalized_data |-> r.acc.normalized,
              ingestion_metadata |->
                 [source_field_count |-> Len(payload),
                  required_sensor_count |-> Len(SpecOrder),
                  conversion_notes |-> r.acc.conversion_notes,
                  warnings |-> r.acc.warnings,
                  quality_score |-> QualityScore(r.acc.quality_issues),
                  status |-> IF r.acc.warnings = << >> THEN "pass"
                             ELSE "pass_with_warnings"],
              error |-> r.error]
        ELSE [ok |-> FALSE, normalized_data |-> EmptyDict,
              ingestion_metadata |-> EmptyDict, error |-> r.error]

(* ------------------------- the later stage agents ---------------------- *)

\* query_terms of RetrievalAgent.run
QueryTerms == <<"pm25", "no2", "ph">>

\* the texts a corpus maps the topics to (MOCK_CORPUS)
MOCK_CORPUS ==
    [pm25 |-> "WHO PM2.5 guideline: annual mean under 5 ug/m3 where feasible.",
     no2 |-> "WHO NO2 guideline: annual average under 10 ug/m3.",
     ph |-> "Surface water pH is typically acceptable in range 6.5-8.5."]

RECURSIVE Chunks(_, _)
Chunks(corp, i) ==
    IF i > Len(QueryTerms) THEN << >>
    ELSE IF QueryTerms[i] \in DOMAIN corp
         THEN <<corp[QueryTerms[i]]>> \o Chunks(corp, i + 1)
         ELSE Chunks(corp, i + 1)

\* RetrievalAgent.run
RetrievalAgent_run(ctx, corp) ==
    [ctx EXCEPT !.retrieval_chunks = Chunks(corp, 1)]

\* ReasoningAgent.run; air_quality_score is in units of 1e-2
ReasoningAgent_run(ctx) ==
    LET data == ctx.normalized_data
        load == data["pm25"] * 12 + data["no2"] * 6
        air_score == 100 * 100000 - Min(100 * 100000, load)
        water_ok == 65000 <= data["ph"] /\ data["ph"] <= 85000
    IN  [ctx EXCEPT !.reasoning =
            [air_quality_score |-> Round(Max(0, air_score), 1000),
             water_status |-> IF water_ok THEN "normal" ELSE "attention",
             explanation |->
               "Combined particulate and NO2 loading with pH threshold checks."]]

\* list(context.normalized_data.values()), in insertion order
Values(data) == [i \in 1..Len(SpecOrder) |-> data[SpecOrder[i]]]

\* ToolAgent.run; both outputs are in units of 1e-3
ToolAgent_run(ctx) ==
    LET vals == Values(ctx.normalized_data)
    IN  [ctx EXCEPT !.tool_outputs =
            [mean_sensor_value |-> Round(Sum(vals), Len(vals) * 10),
             max_sensor_value |-> Round(MaxOf(vals), 10)]]

\* a store that keeps only the latest score of a site
StoreAppend_overwrite(st, site, score) ==
    [s \in (DOMAIN st) \cup {site} |-> IF s = site THEN <<score>> ELSE st[s]]

\* self._store.setdefault(site, []).append(air_quality_score)
StoreAppend(st, site, score) ==
    [s \in (DOMAIN st) \cup {site} |->
        IF s = site
        THEN (IF site \in DOMAIN st THEN Append(st[site], score) ELSE <<score>>)
        ELSE st[s]]

\* the memory field MemoryAgent.run reports from the site's history
MemoryOf(history) ==
    [historical_count |-> Len(history),
     historical_air_quality_mean |-> Round(Sum(history) * 10, Len(history))]

\* EvaluationAgent.run; scores in units of 1e-4
EvaluationAgent_run(ctx) ==
    LET retrieval_accuracy == IF Len(ctx.retrieval_chunks) >= 3 THEN 10000 ELSE 6000
        reasoning_consistency ==
            IF "explanation" \in DOMAIN ctx.reasoning THEN 10000 ELSE 5000
        tool_correctness ==
            IF ctx.tool_outputs.max_sensor_value >= ctx.tool_outputs.mean_sensor_value
            THEN 10000 ELSE 0
        ece10 == Abs(ctx.reasoning.air_quality_score - retrieval_accuracy)
    IN  [ctx EXCEPT !.evaluation =
            [retrieval_accuracy |-> retrieval_accuracy,
             reasoning_consistency |-> reasoning_consistency,
             tool_correctness |-> tool_correctness,
             ece |-> Round(ece10, 10)]]

\* the weighted sum with the last term read as 0.1 * 1 - ece
Reliability_precedence(e) ==
    30 * e.retrieval_accuracy + 35 * e.reasoning_consistency
      + 25 * e.tool_correctness + (10 * 10000 - 100 * e.ece)

\* the weighted sum of ReliabilityMonitor.run, in units of 1e-6
Reliability(e) ==
    30 * e.retrieval_accuracy + 35 * e.reasoning_consistency
      + 25 * e.tool_correctness + 10 * (10000 - e.ece)

\* ReliabilityMonitor.run
ReliabilityMonitor_run(ctx) ==
    LET reliability == Reliability(ctx.evaluation)
    IN  [ctx EXCEPT !.reliability =
            [end_to_end |-> Round(reliability, 100),
             status |-> IF reliability >= 850000 THEN "high"
                        ELSE IF reliability >= 700000 THEN "moderate"
                        ELSE "low"]]

PM25Alert == "PM2.5 exceeds governance threshold"

PHAlert == "pH outside safe governance range"

\* a governance check that tests pH before PM2.5
GovernanceAgent_run_ph_first(ctx) ==
    LET data == ctx.normalized_data
        a1 == IF data["ph"] < 60000 \/ data["ph"] > 90000
              THEN <<PHAlert>> ELSE << >>
        alerts == IF data["pm25"] > 550000 THEN Append(a1, PM25Alert) ELSE a1
    IN  [ctx EXCEPT !.governance =
            [alerts |-> alerts, safe_to_publish |-> Len(alerts) = 0]]

\* GovernanceAgent.run
GovernanceAgent_run(ctx) ==
    LET data == ctx.normalized_data
        a1 == IF data["pm25"] > 550000 THEN <<PM25Alert>> ELSE << >>
        alerts == IF data["ph"] < 60000 \/ data["ph"] > 90000
                  THEN Append(a1, PHAlert) ELSE a1
    IN  [ctx EXCEPT !.governance =
            [alerts |-> alerts, safe_to_publish |-> Len(alerts) = 0]]

\* the report dict Orchestrator.run assembles
ReportOf(ctx) ==
    [site_id |-> ctx.request.site_id,
     summary |-> ctx.reasoning,
     ingestion |-> ctx.ingestion_metadata,
     tool_outputs |-> ctx.tool_outputs,
     evaluation |-> ctx.evaluation,
     reliability |-> ctx.reliability,
     governance |-> ctx.governance,
     retrieval_evidence |-> ctx.retrieval_chunks]

\* AssessmentContext(request=request): every other field at its default
NewContext(request) ==
    [request |-> request,
     normalized_data |-> EmptyDict, ingestion_metadata |-> EmptyDict,
     retrieval_chunks |-> << >>, reasoning |-> EmptyDict,
     tool_outputs |-> EmptyDict, memory |-> EmptyDict,
     evaluation |-> EmptyDict, reliability |-> EmptyDict,
     governance |-> EmptyDict, report |-> EmptyDict]

(* ----------------------------- Orchestrator ---------------------------- *)

\* the statements of Orchestrator.run in program order
Stages == <<"ingestion", "retrieval", "reasoning", "tool", "memory",
            "evaluation", "reliability", "governance", "report">>

StageIndex(stage) == CHOOSE i \in 1..Len(Stages) : Stages[i] = stage

\* an order that runs the governance checks before the reliability monitor
NextStage_reordered(stage) ==
    CASE stage = "evaluation" -> "governance"
      [] stage = "governance" -> "reliability"
      [] stage = "reliability" -> "report"
      [] stage = "report" -> "done"
      [] OTHER -> Stages[StageIndex(stage) + 1]

\* the statement that follows a stage that returned; the run is over ("done")
\* once the report is assigned
NextStage(stage) ==
    IF StageIndex(stage) = Len(Stages) THEN "done"
    ELSE Stages[StageIndex(stage) + 1]

NoError == [kind |-> "none", name |-> ""]

\* MemoryAgent.run: the store after the append and the context with the
\* memory field read back from the site's history
MemoryAgent_run(ctx, st) ==
    LET site == ctx.request.site_id
        st2 == StoreAppend(st, site, ctx.reasoning.air_quality_score)
    IN  [store |-> st2, context |-> [ctx EXCEPT !.memory = MemoryOf(st2[site])]]

(* ------------------------------- inputs -------------------------------- *)

\* a payload number: 1.0
R == U

\* n/10 as a raw payload number
Tenths(n) == n * (R \div 10)

Num(v) == [kind |-> "num", v |-> v]

Str(v) == [kind |-> "str", v |-> v]

Text == [kind |-> "text", v |-> 0]

Entry(k, raw) == [key |-> k, raw |-> raw]

Reverse(s) == [i \in 1..Len(s) |-> s[Len(s) + 1 - i]]

Sites == {"SITE-001", "SITE-002"}

\* the canonical name and the aliases the SPECS table declares for sensor s
KeysOf(s) ==
    {SPECS[s].canonical_name} \cup
    {SPECS[s].aliases[i] : i \in 1..Len(SPECS[s].aliases)}

\* a reading inside the sensor's operating range
OkRaw(s) ==
    CASE s = "pm25" -> Num(38 * R)
      [] s = "pm10" -> Num(62 * R)
      [] s = "no2" -> Num(17 * R)
      [] s = "ph" -> Num(Tenths(73))
      [] s = "temperature_c" -> Num(Tenths(312))

\* the sensor under one key with: readings inside the operating range, outside
\* it, outside the physical range, non-numeric; or the sensor absent
ValueBlocks(s) ==
    {<< >>} \cup
    CASE s = "pm25" ->
           {<<Entry("pm25", r)>> :
               r \in {Num(38 * R), Num(55 * R + 40), Num(80 * R),
                      Num(1000 * R + 40), Text}}
      [] s = "pm10" ->
           {<<Entry("pm10", r)>> : r \in {Num(62 * R), Num(500 * R)}}
      [] s = "no2" ->
           {<<Entry("no2", r)>> : r \in {Num(17 * R), Str(17 * R)}} \cup
           {<<Entry("no2_ppb", r)>> :
               r \in {Num(10 * R), Num(106382979), Num(110 * R), Num(1100 * R)}}
      [] s = "ph" ->
           {<<Entry("ph", r)>> :
               r \in {Num(Tenths(73)), Num(Tenths(59)), Num(20 * R), Text}}
      [] s = "temperature_c" ->
           {<<Entry("temperature_c", r)>> :
               r \in {Num(Tenths(312)), Num(0 - 20 * R), Num(0 - 60 * R),
                      Str(25 * R)}}

\* the sensor under exactly one of its keys, reading in range
AliasBlocks(s) == {<<Entry(k, OkRaw(s))>> : k \in KeysOf(s)}

\* the sensor under several of its keys at once, in any payload order, the
\* i-th of them reading OkRaw + i/10 or a non-numeric text
MultiBlocks(s) ==
    UNION {
      {[i \in 1..n |->
           Entry(f[i], IF t[i] THEN Text ELSE Num(OkRaw(s).v + i * (R \div 10)))] :
         f \in {g \in [1..n -> KeysOf(s)] :
                   \A i, j \in 1..n : i # j => g[i] # g[j]},
         t \in [1..n -> BOOLEAN]} :
      n \in 2..Min(MaxAliasesPresent, Cardinality(KeysOf(s)))}

Concat(b) ==
    b["pm25"] \o b["pm10"] \o b["no2"] \o b["ph"] \o b["temperature_c"]

DefaultBlocks == [s \in Sensors |-> <<Entry(s, OkRaw(s))>>]

ValuePayloads ==
    {p1 \o p2 \o p3 \o p4 \o p5 :
        p1 \in ValueBlocks("pm25"), p2 \in ValueBlocks("pm10"),
        p3 \in ValueBlocks("no2"), p4 \in ValueBlocks("ph"),
        p5 \in ValueBlocks("temperature_c")}

AliasPayloads ==
    {p1 \o p2 \o p3 \o p4 \o p5 :
        p1 \in AliasBlocks("pm25"), p2 \in AliasBlocks("pm10"),
        p3 \in AliasBlocks("no2"), p4 \in AliasBlocks("ph"),
        p5 \in AliasBlocks("temperature_c")}

MultiPayloads ==
    UNION {{Concat([DefaultBlocks EXCEPT ![s] = m]) : m \in MultiBlocks(s)} :
             s \in Sensors}

\* the payloads DataIngestionAgent.run is applied to, each in two key orders
IngestPayloads ==
    LET base == ValuePayloads \cup AliasPayloads \cup MultiPayloads
    IN  base \cup {Reverse(p) : p \in base}

\* the payloads of the requests given to Orchestrator.run
RunPayloads ==
    {<<Entry("pm25", a), Entry("pm10", OkRaw("pm10")), Entry("no2", OkRaw("no2")),
       Entry("ph", c)>> \o t :
        a \in {Num(38 * R), Num(55 * R + 40), Num(80 * R)},
        c \in {Num(Tenths(73)), Num(Tenths(59)), Num(6 * R),
               Num(Tenths(92))},
        t \in {<<Entry("temperature_c", OkRaw("temperature_c"))>>, << >>}}

\* the corpora an orchestrator is constructed with
Corpora == {[k \in S |-> MOCK_CORPUS[k]] : S \in SUBSET (DOMAIN MOCK_CORPUS)}

Request(site, payload) ==
    [site_id |-> site, sensor_data |-> payload, task |-> "environmental_assessment"]

(* ------------------------------- actions ------------------------------- *)

\* Orchestrator.__init__: no run yet, MemoryAgent._store empty
Init ==
    /\ pc = "idle"
    /\ context = NewContext(Request("", << >>))
    /\ error = NoError
    /\ store = EmptyDict
    /\ corpus \in Corpora
    /\ runs = 0
    /\ completed = [s \in Sites |-> << >>]

\* Orchestrator.run is called: context = AssessmentContext(request=request)
StartRun ==
    /\ pc \in {"idle", "done", "failed"}
    /\ runs < MaxRuns
    /\ \E site \in Sites, payload \in RunPayloads :
          context' = NewContext(Request(site, payload))
    /\ pc' = Stages[1]
    /\ error' = NoError
    /\ runs' = runs + 1
    /\ UNCHANGED <<store, corpus, completed>>

\* context = self.data_agent.run(context), returning
DataIngestion ==
    /\ pc = "ingestion"
    /\ LET r == Ingest(context.request.sensor_data)
       IN  /\ r.ok
           /\ context' = [context EXCEPT
                             !.normalized_data = r.normalized_data,
                             !.ingestion_metadata = r.ingestion_metadata]
    /\ pc' = NextStage("ingestion")
    /\ UNCHANGED <<error, store, corpus, runs, completed>>

\* self.data_agent.run(context) raising: run() does not catch, the call ends
DataIngestionRaise ==
    /\ pc = "ingestion"
    /\ LET r == Ingest(context.request.sensor_data)
       IN  /\ ~r.ok
           /\ error' = r.error
    /\ pc' = "failed"
    /\ UNCHANGED <<context, store, corpus, runs, completed>>

Retrieval ==
    /\ pc = "retrieval"
    /\ context' = RetrievalAgent_run(context, corpus)
    /\ pc' = NextStage("retrieval")
    /\ UNCHANGED <<error, store, corpus, runs, completed>>

Reasoning ==
    /\ pc = "reasoning"
    /\ context' = ReasoningAgent_run(context)
    /\ pc' = NextStage("reasoning")
    /\ UNCHANGED <<error, store, corpus, runs, completed>>

Tool ==
    /\ pc = "tool"
    /\ context' = ToolAgent_run(context)
    /\ pc' = NextStage("tool")
    /\ UNCHANGED <<error, store, corpus, runs, completed>>

Memory ==
    /\ pc = "memory"
    /\ LET m == MemoryAgent_run(context, store)
       IN  /\ store' = m.store
           /\ context' = m.context
    /\ pc' = NextStage("memory")
    /\ UNCHANGED <<error, corpus, runs, completed>>

Evaluation ==
    /\ pc = "evaluation"
    /\ context' = EvaluationAgent_run(context)
    /\ pc' = NextStage("evaluation")
    /\ UNCHANGED <<error, store, corpus, runs, completed>>

ReliabilityStage ==
    /\ pc = "reliability"
    /\ context' = ReliabilityMonitor_run(context)
    /\ pc' = NextStage("reliability")
    /\ UNCHANGED <<error, store, corpus, runs, completed>>

Governance ==
    /\ pc = "governance"
    /\ context' = GovernanceAgent_run(context)
    /\ pc' = NextStage("governance")
    /\ UNCHANGED <<error, store, corpus, runs, completed>>

\* context.report = {...}; return context.  completed is a history variable:
\* the air_quality_score of every call that returned, per site, in call order
Report ==
    /\ pc = "report"
    /\ context' = [context EXCEPT !.report = ReportOf(context)]
    /\ pc' = NextStage("report")
    /\ completed' = [completed EXCEPT ![context.request.site_id] =
                        Append(@, context.reasoning.air_quality_score)]
    /\ UNCHANGED <<error, store, corpus, runs>>

Next ==
    \/ StartRun
    \/ DataIngestion
    \/ DataIngestionRaise
    \/ Retrieval
    \/ Reasoning
    \/ Tool
    \/ Memory
    \/ Evaluation
    \/ ReliabilityStage
    \/ Governance
    \/ Report

Spec == Init /\ [][Next]_vars

\* DataIngestionAgent.run alone, applied to one context per payload
InitIngest ==
    /\ pc = "ingestion"
    /\ \E payload \in IngestPayloads :
          context = NewContext(Request("SITE-001", payload))
    /\ error = NoError
    /\ store = EmptyDict
    /\ corpus = MOCK_CORPUS
    /\ runs = 1
    /\ completed = [s \in Sites |-> << >>]

NextIngest ==
    \/ DataIngestion
    \/ DataIngestionRaise

SpecIngest == InitIngest /\ [][NextIngest]_vars

(* ------------------------------- claims -------------------------------- *)

\* the payload of the current request
Payload == context.request.sensor_data

Populated(f) == DOMAIN f # {}

Elems(q) == {q[i] : i \in 1..Len(q)}

\* DataIngestionAgent.run has been applied to the current context
Ingested == pc # "idle" /\ pc # "ingestion"

\* the run is past the stage, or over
Past(stage) ==
    \/ pc = "done"
    \/ pc \in Elems(Stages) /\ StageIndex(pc) > StageIndex(stage)

\* the position of sensor s in the declaration order
SpecIndex(s) == CHOOSE i \in 1..Len(SpecOrder) : SpecOrder[i] = s

\* no key of sensor s is in the payload
Absent(p, s) == \A k \in KeysOf(s) : ~HasKey(p, k)

\* the reading the sensor resolves to, after unit conversion
Converted(p, s) ==
    LET src == resolve_value(p, SPECS[s])
    IN  normalize(src.key, s, src.value).value

Numeric(p, s) == resolve_value(p, SPECS[s]).status = "ok"

\* value < bound, value > bound
Below(value, bound) == value.value < bound

Above(value, bound) ==
    value.value > bound \/ (value.value = bound /\ value.frac > 0)

HardBreach(p, s) ==
    /\ Numeric(p, s)
    /\ \/ Below(Converted(p, s), SPECS[s].hard_min)
       \/ Above(Converted(p, s), SPECS[s].hard_max)

SoftBreach(p, s) ==
    /\ Numeric(p, s)
    /\ \/ Below(Converted(p, s), SPECS[s].min_value)
       \/ Above(Converted(p, s), SPECS[s].max_value)

\* every sensor declared before s resolves to a number inside its hard range
EarlierAccepted(p, s) ==
    \A i \in 1..Len(SpecOrder) :
        i < SpecIndex(s) =>
            Numeric(p, SpecOrder[i]) /\ ~HardBreach(p, SpecOrder[i])

\* ingestion failed and left both of its context fields unpopulated
Rejected ==
    /\ pc = "failed"
    /\ error.kind # "none"
    /\ ~Populated(context.normalized_data)
    /\ ~Populated(context.ingestion_metadata)

\* one step of a call, as C1 allows it
C1_Step ==
    /\ pc' # pc =>
          \/ /\ pc \in {"idle", "done", "failed"}
             /\ pc' = "ingestion"
             /\ runs' = runs + 1
             /\ context' = NewContext(context'.request)
          \/ pc = "ingestion" /\ pc' \in {"retrieval", "failed"}
          \/ pc = "retrieval" /\ pc' = "reasoning"
          \/ pc = "reasoning" /\ pc' = "tool"
          \/ pc = "tool" /\ pc' = "memory"
          \/ pc = "memory" /\ pc' = "evaluation"
          \/ pc = "evaluation" /\ pc' = "reliability"
          \/ pc = "reliability" /\ pc' = "governance"
          \/ pc = "governance" /\ pc' = "report"
          \/ pc = "report" /\ pc' = "done"
    /\ pc' = pc => context' = context
    /\ pc' = "failed" =>
          /\ context' = NewContext(context.request)
          /\ error'.kind # "none"
          /\ store' = store
    /\ Populated(context'.report) =>
          /\ pc' = "done"
          /\ context'.report = ReportOf(context')
          /\ \A f \in {"normalized_data", "ingestion_metadata", "reasoning",
                       "tool_outputs", "memory", "evaluation", "reliability",
                       "governance"} : Populated(context'[f])
    /\ Populated(context'.reasoning) => pc' \notin {"ingestion", "retrieval", "reasoning"}
    /\ Populated(context'.tool_outputs) => Populated(context'.reasoning) /\ pc' # "tool"
    /\ Populated(context'.memory) => Populated(context'.tool_outputs) /\ pc' # "memory"
    /\ Populated(context'.evaluation) => Populated(context'.memory) /\ pc' # "evaluation"
    /\ Populated(context'.reliability) => Populated(context'.evaluation) /\ pc' # "reliability"
    /\ Populated(context'.governance) => Populated(context'.reliability) /\ pc' # "governance"

\* C1: Orchestrator.run executes ingestion, retrieval, reasoning, tool,
\* memory, evaluation, reliability, governance and the report assembly in
\* that order, each step moving to the next stage only; the only other way
\* out of a stage is a failure, which ends the call with no report and no
\* later stage's field populated; a report is populated only when the call
\* is over and all eight stages have populated their fields.
C1_StageOrder == [][C1_Step]_vars

\* a call failed in ingestion after an earlier call on the instance completed
C1_Witness ==
    /\ pc = "failed"
    /\ runs = 2
    /\ \E s \in Sites : completed[s] # << >>
    /\ ~Populated(context.report)

\* the history MemoryAgent._store holds for a site
History(st, s) == IF s \in DOMAIN st THEN st[s] ELSE << >>

\* C2: the store holds, for every site, exactly the air_quality_scores of the
\* calls for that site that got as far as MemoryAgent, in call order (failed
\* calls and calls for other sites leave it alone), and the k-th call that
\* completes for a site reports historical_count = k and
\* historical_air_quality_mean = the mean, rounded to 3 digits, of the scores
\* of the k completed calls for that site.
C2_RunningHistory ==
    /\ \A s \in Sites :
          History(store, s) =
             IF Past("memory") /\ pc # "done" /\ context.request.site_id = s
             THEN Append(completed[s], context.reasoning.air_quality_score)
             ELSE completed[s]
    /\ pc = "done" =>
          LET s == context.request.site_id
              k == Len(completed[s])
          IN  /\ k >= 1
              /\ completed[s][k] = context.reasoning.air_quality_score
              /\ context.memory.historical_count = k
              /\ context.memory.historical_air_quality_mean =
                    Round(Sum(completed[s]) * 10, k)

\* the second completed call for a site, with a different score than the
\* first, on an instance that also served a call that failed or was for the
\* other site
C2_Witness ==
    /\ pc = "done"
    /\ runs = 3
    /\ Len(completed[context.request.site_id]) = 2
    /\ completed[context.request.site_id][1] # completed[context.request.site_id][2]
    /\ context.memory.historical_count = 2

\* C3 as stated: whenever exactly one required sensor is absent under all of
\* its keys, ingestion fails with the missing-sensor error naming that sensor
\* and leaves normalized_data and ingestion_metadata unpopulated.
C3_AsStated ==
    Ingested =>
       \A s \in Sensors :
          (Absent(Payload, s) /\ \A t \in Sensors \ {s} : ~Absent(Payload, t)) =>
             /\ Rejected
             /\ error = [kind |-> "missing", name |-> s]

\* C3, amended: whenever a required sensor is absent under all of its keys,
\* ingestion fails and leaves normalized_data and ingestion_metadata
\* unpopulated; the error is the missing-sensor error naming that sensor when
\* every sensor declared before it resolves to a number inside its hard range
\* (otherwise the failure belongs to the first sensor that does not).
C3_MissingSensor ==
    Ingested =>
       \A s \in Sensors :
          Absent(Payload, s) =>
             /\ Rejected
             /\ EarlierAccepted(Payload, s) =>
                   error = [kind |-> "missing", name |-> s]

\* the last declared sensor is the one absent, and the error names it
C3_Witness ==
    /\ Rejected
    /\ Absent(Payload, "temperature_c")
    /\ \A t \in Sensors \ {"temperature_c"} : ~Absent(Payload, t)
    /\ error = [kind |-> "missing", name |-> "temperature_c"]

\* C4 as stated: whenever a sensor's converted value lies outside its hard
\* range, ingestion fails with the physically-impossible-value error and
\* normalized_data and ingestion_metadata stay unpopulated.
C4_AsStated ==
    Ingested =>
       \A s \in Sensors :
          HardBreach(Payload, s) => Rejected /\ error.kind = "impossible"

\* C4, amended: whenever a sensor's converted value lies outside its hard
\* range, ingestion fails, nothing is clamped or stored (normalized_data and
\* ingestion_metadata stay unpopulated, no warnings-only result); the error is
\* the physically-impossible-value error for that sensor when every sensor
\* declared before it resolves to a number inside its hard range.
C4_HardRange ==
    Ingested =>
       \A s \in Sensors :
          HardBreach(Payload, s) =>
             /\ Rejected
             /\ EarlierAccepted(Payload, s) =>
                   error = [kind |-> "impossible", name |-> s]

\* a reading below the physical minimum is rejected
C4_Witness ==
    /\ Rejected
    /\ HardBreach(Payload, "temperature_c")
    /\ Below(Converted(Payload, "temperature_c"), SPECS["temperature_c"].hard_min)
    /\ error = [kind |-> "impossible", name |-> "temperature_c"]

\* the sensors whose converted reading is outside the operating range
WarningSensors(p) == {s \in Sensors : SoftBreach(p, s)}

\* C5: when ingestion succeeds, quality_score = 1 - warning_count/5 (in 1e-4:
\* 10000 - 2000 * warning_count), warning_count being the number of sensors
\* outside their soft range and the length of the warnings list; status is
\* "pass_with_warnings" iff the warnings list is non-empty, else "pass".
C5_QualityScore ==
    (Ingested /\ pc # "failed") =>
       LET m == context.ingestion_metadata
           warning_count == Cardinality(WarningSensors(Payload))
       IN  /\ Len(m.warnings) = warning_count
           /\ {w.sensor : w \in Elems(m.warnings)} = WarningSensors(Payload)
           /\ m.quality_score = 10000 - 2000 * warning_count
           /\ m.status = IF m.warnings # << >> THEN "pass_with_warnings" ELSE "pass"

\* all five sensors outside their operating range: the score is 0
C5_Witness ==
    /\ pc = "retrieval"
    /\ Len(context.ingestion_metadata.warnings) = 5
    /\ context.ingestion_metadata.quality_score = 0
    /\ context.ingestion_metadata.status = "pass_with_warnings"

\* the payload with its i-th and j-th entries exchanged
Swap(p, i, j) ==
    [n \in 1..Len(p) |-> IF n = i THEN p[j] ELSE IF n = j THEN p[i] ELSE p[n]]

\* the position of key k in the scan order of sensor s
KeyRank(s, k) ==
    IF k = SPECS[s].canonical_name THEN 0
    ELSE CHOOSE i \in 1..Len(SPECS[s].aliases) : SPECS[s].aliases[i] = k

\* C6: for each sensor the resolved key is the present key that comes first
\* in the order canonical name, then aliases as declared, and the value is
\* the one the payload holds under it; exchanging any two entries of the
\* payload changes nothing of what ingestion returns or raises, and the
\* outcome the run reached is the one of every such reordered payload.
C6_AliasPriority ==
    /\ \A s \in Sensors :
          LET r == resolve_value(Payload, SPECS[s])
              present == {k \in KeysOf(s) : HasKey(Payload, k)}
          IN  IF present = {} THEN r.status = "missing"
              ELSE /\ r.key \in present
                   /\ \A k \in present : KeyRank(s, r.key) <= KeyRank(s, k)
                   /\ r.status = "ok" => r.value = Lookup(Payload, r.key).v
    /\ \A i, j \in 1..Len(Payload) :
          i < j =>
             LET q == Ingest(Swap(Payload, i, j))
             IN  /\ q = Ingest(Payload)
                 /\ Ingested =>
                       /\ q.ok = (pc # "failed")
                       /\ q.normalized_data = context.normalized_data
                       /\ q.ingestion_metadata = context.ingestion_metadata
                       /\ q.error = error

\* no2_ppb precedes no2 in the payload, and the canonical no2 was taken,
\* unconverted
C6_Witness ==
    /\ pc = "retrieval"
    /\ \E i, j \in 1..Len(Payload) :
          /\ i < j
          /\ Payload[i].key = "no2_ppb"
          /\ Payload[j].key = "no2"
          /\ Payload[i].raw.kind = "num"
          /\ context.normalized_data["no2"] = Round(Payload[j].raw.v, 100)
          /\ context.normalized_data["no2"] # Round4(TimesFactor(Payload[i].raw.v))
    /\ context.ingestion_metadata.conversion_notes[3].note = "No unit conversion"

\* every entry of the payload under a sensor key holds a number that is
\* inside the sensor's hard range after unit conversion
ValidPayload(p) ==
    \A i \in 1..Len(p) : \A s \in Sensors :
        p[i].key \in KeysOf(s) =>
           /\ p[i].raw.kind \in {"num", "str"}
           /\ LET v == IF p[i].key = "no2_ppb" THEN TimesFactor(p[i].raw.v)
                       ELSE [value |-> p[i].raw.v, frac |-> 0]
              IN  ~Below(v, SPECS[s].hard_min) /\ ~Above(v, SPECS[s].hard_max)

\* C7: for a valid payload that covers all 5 sensors, each under any of its
\* keys, ingestion succeeds and normalized_data has exactly the 5 canonical
\* keys.
C7_CanonicalKeys ==
    (Ingested /\ ValidPayload(Payload) /\ \A s \in Sensors : ~Absent(Payload, s)) =>
       /\ pc # "failed"
       /\ DOMAIN context.normalized_data = Sensors
       /\ DOMAIN context.normalized_data =
             {"pm25", "pm10", "no2", "ph", "temperature_c"}

\* every sensor was supplied under its last declared alias only
C7_Witness ==
    /\ pc = "retrieval"
    /\ {Payload[i].key : i \in 1..Len(Payload)} =
          {"pm25_ugm3", "pm10_ugm3", "nitrogen_dioxide", "water_ph", "temperature"}
    /\ DOMAIN context.normalized_data = Sensors

\* C8: the PM2.5 alert is emitted iff normalized pm25 > 55, the pH alert iff
\* normalized ph < 6.0 or ph > 9.0, nothing else is emitted, safe_to_publish
\* is true iff there is no alert, and with both the PM2.5 alert comes first.
C8_Governance ==
    Past("governance") =>
       LET d == context.normalized_data
           g == context.governance
           pm == d["pm25"] > 550000
           ph == d["ph"] < 60000 \/ d["ph"] > 90000
       IN  /\ (PM25Alert \in Elems(g.alerts)) = pm
           /\ (PHAlert \in Elems(g.alerts)) = ph
           /\ Elems(g.alerts) \subseteq {PM25Alert, PHAlert}
           /\ Len(g.alerts) = Cardinality(Elems(g.alerts))
           /\ g.safe_to_publish = (g.alerts = << >>)
           /\ (pm /\ ph) => g.alerts = <<PM25Alert, PHAlert>>

\* both thresholds crossed: two alerts, PM2.5 first
C8_Witness ==
    /\ pc = "done"
    /\ context.normalized_data["pm25"] > 550000
    /\ context.normalized_data["ph"] < 60000
    /\ context.report.governance.alerts = <<PM25Alert, PHAlert>>
    /\ ~context.report.governance.safe_to_publish

\* a context as EvaluationAgent finds it: n chunks retrieved, the given
\* air_quality_score, the tool outputs of the current context
Evaluated(score, n) ==
    ReliabilityMonitor_run(EvaluationAgent_run(
        [context EXCEPT !.retrieval_chunks = [i \in 1..n |-> "chunk"],
                        !.reasoning = [air_quality_score |-> score,
                                       water_status |-> "normal",
                                       explanation |-> ""]]))

\* C9: after every call that completes, reasoning_consistency and
\* tool_correctness are 1.0, end_to_end is at least 0.85 and the reliability
\* status is "high"; and once the tool outputs are there, the status is
\* "high" for every air_quality_score from 0.00 to 100.00 and 0 to 3 chunks.
C9_AlwaysHigh ==
    /\ pc = "done" =>
          /\ context.report.evaluation.reasoning_consistency = 10000
          /\ context.report.evaluation.tool_correctness = 10000
          /\ context.report.reliability.status = "high"
          /\ context.report.reliability.end_to_end >= 8500
    /\ (pc = "memory" /\ runs = 1) =>
          \A score \in 0..10000 : \A n \in 0..Len(QueryTerms) :
              LET c == Evaluated(score, n)
              IN  /\ c.reliability.status = "high"
                  /\ c.evaluation.tool_correctness = 10000

\* the lowest score the pipeline reaches: fewer than 3 chunks and an air
\* quality score of 0
C9_Witness ==
    /\ pc = "done"
    /\ context.report.evaluation.retrieval_accuracy = 6000
    /\ context.report.summary.air_quality_score = 0
    /\ context.report.reliability.end_to_end = 8740
    /\ context.report.reliability.status = "high"

\* C10: after every call that completes, safe_to_publish = false implies
\* ingestion status "pass_with_warnings"; ingestion status "pass" implies
\* safe_to_publish = true and no alerts.
C10_AlertImpliesWarning ==
    pc = "done" =>
       /\ ~context.report.governance.safe_to_publish =>
             context.report.ingestion.status = "pass_with_warnings"
       /\ context.report.ingestion.status = "pass" =>
             /\ context.report.governance.safe_to_publish
             /\ context.report.governance.alerts = << >>

\* a completed call with an alert, and its ingestion warning
C10_Witness ==
    /\ pc = "done"
    /\ context.report.governance.alerts = <<PHAlert>>
    /\ context.report.ingestion.status = "pass_with_warnings"
    /\ Len(context.report.ingestion.warnings) = 1

====
